---- MODULE Spec2Model ----
(***************************************************************************)
(* Model of src/tags.rs of rklaehn/cbor: the Tagged<T> helper, its         *)
(* Serialize / Deserialize implementations and the thread-local CBOR_TAG   *)
(* slot through which a CBOR tag is handed to and from the codec.          *)
(*                                                                         *)
(* Every thread runs top-level operations one after the other: it encodes  *)
(* a Tagged value, decodes a stream as a Tagged type, and applies          *)
(* unwrap_if_tag to what it decoded.  The body of Tagged::serialize and of *)
(* the visitor is split at every access to CBOR_TAG and at every call into *)
(* the codec, so that threads interleave between any two accesses.         *)
(* The codec (the Serializer / Deserializer of the crate) is not part of   *)
(* tags.rs; it is modelled by the write and read contracts of the design.  *)
(***************************************************************************)
EXTENDS Integers, Sequences, FiniteSets, TLC

\* ------------------------------------------------------------------ bounds

\* Tags are 0..MaxTag; MaxTag stands for the largest u64 (the code only
\* compares tags, it never computes with them).
MaxTag == 2

\* The deepest nesting Tagged<Tagged<..T..>> a thread encodes or decodes.
MaxNest == 2

Threads == {1, 2}

\* ---------------------------------------------------------------- options

\* Option<u64>: None and Some(t)
None == <<>>

Some(t) == <<t>>

Tags == 0..MaxTag

OptTags == {None} \cup {Some(t) : t \in Tags}

\* -------------------------------------------------------------- results

\* Result<T, E>
Ok(v) == [ok |-> TRUE, value |-> v]

Err(e) == [ok |-> FALSE, error |-> e]

\* the local `r` of a frame before it is assigned
Pending == [pending |-> TRUE]

\* serde::de::Error::custom(msg): an error holding the message and nothing else
custom(msg) == [msg |-> msg]

\* Result::map
map(r, f(_)) == IF r.ok THEN Ok(f(r.value)) ELSE r

\* ------------------------------------------------------ the serde data model

\* what a payload serializes as (one Serializer method each)
WriteShapes ==
    {"bool", "i8", "i16", "i32", "i64", "u8", "u16", "u32", "u64",
     "f32", "f64", "char", "str", "bytes", "none", "some", "unit",
     "seq", "map", "enum"}

PayloadVals == {"a", "b"}

\* a payload that is not itself a Tagged value
Leaves == [shape : WriteShapes, val : PayloadVals]

\* pub struct Tagged<T> { pub tag: Option<u64>, pub value: T }
IsTagged(v) == "tag" \in DOMAIN v

\* Tagged::new
Tagged_new(tag, value) == [tag |-> tag, value |-> value]

\* the Tagged values with exactly n layers around a payload of `leaves`
RECURSIVE TaggedValues(_, _)
TaggedValues(n, leaves) ==
    IF n = 0 THEN leaves
    ELSE {Tagged_new(t, v) : t \in OptTags, v \in TaggedValues(n - 1, leaves)}

\* number of Tagged layers of a value
RECURSIVE Layers(_)
Layers(v) == IF IsTagged(v) THEN 1 + Layers(v.value) ELSE 0

\* the payload below every Tagged layer
RECURSIVE LeafOf(_)
LeafOf(v) == IF IsTagged(v) THEN LeafOf(v.value) ELSE v

\* the tags of the layers, outermost first
RECURSIVE TagsOf(_)
TagsOf(v) == IF IsTagged(v) THEN <<v.tag>> \o TagsOf(v.value) ELSE <<>>

\* -------------------------------------------------------- the side channel

VARIABLES
    tags_feature,   \* cfg(feature = "tags"): fixed when the crate is built
    CBOR_TAG,       \* thread_local CBOR_TAG, one slot per thread
    stack,          \* per thread: the call stack (innermost frame last)
    phase,          \* per thread: which top-level operation it is in
    input,          \* per thread: the value handed to the last encode
    out,            \* per thread: the stream the codec has written
    rd,             \* per thread: what the codec has still to read
    ret,            \* per thread: what the last top-level call returned
    unwrap_of       \* per thread: the arguments of the last unwrap_if_tag

vars == <<tags_feature, CBOR_TAG, stack, phase, input, out, rd, ret, unwrap_of>>

\* a mutation of set_tag: one slot shared by every thread (a static instead
\* of a thread_local)
set_tag_shared(th, value) ==
    IF tags_feature THEN [u \in Threads |-> value] ELSE CBOR_TAG

\* a mutation of set_tag: the slot is written although tag support is off
set_tag_nocfg(th, value) == [CBOR_TAG EXCEPT ![th] = value]

\* a mutation of set_tag: a tag that is pending is kept until it is cleared
set_tag_keep(th, value) ==
    IF tags_feature /\ (CBOR_TAG[th] = None \/ value = None)
    THEN [CBOR_TAG EXCEPT ![th] = value]
    ELSE CBOR_TAG

\* pub(crate) fn set_tag(value: Option<u64>), both cfg variants: the slots
\* after the call on thread th
set_tag(th, value) ==
    IF tags_feature THEN [CBOR_TAG EXCEPT ![th] = value] ELSE CBOR_TAG

\* pub(crate) fn get_tag() -> Option<u64>, both cfg variants
get_tag(th) == IF tags_feature THEN CBOR_TAG[th] ELSE None

\* ------------------------------------------------------------ call stack

Top(th) == stack[th][Len(stack[th])]

Running(th, fn, pc) ==
    /\ stack[th] # <<>>
    /\ Top(th).fn = fn
    /\ Top(th).pc = pc

SetTop(th, f) == [stack EXCEPT ![th] = [@ EXCEPT ![Len(@)] = f]]

Push(th, f, g) ==
    [stack EXCEPT ![th] = Append([@ EXCEPT ![Len(@)] = f], g)]

Pop(s) == SubSeq(s, 1, Len(s) - 1)

\* ---------------------------------------------------------------- write path

\* the stream: tag markers and payload contents in the order written
Marker(t) == [mark |-> t]

IsMarker(item) == "mark" \in DOMAIN item

\* a call of <Tagged<T> as Serialize>::serialize(&self, s)
SerializeFrame(self) ==
    [fn |-> "serialize", self |-> self, pc |-> "set_tag", r |-> Pending,
     seen |-> None]

\* a thread starts encoding one of the Tagged values `values`
StartEncode(th, values) ==
    /\ phase[th] = "idle"
    /\ \E v \in values :
          /\ IsTagged(v)
          /\ stack' = [stack EXCEPT ![th] = <<SerializeFrame(v)>>]
          /\ input' = [input EXCEPT ![th] = v]
    /\ phase' = [phase EXCEPT ![th] = "encoding"]
    /\ out' = [out EXCEPT ![th] = <<>>]
    /\ UNCHANGED <<tags_feature, CBOR_TAG, rd, ret, unwrap_of>>

\* a mutation of SerializeSetTag: the slot is written only for a present tag
SerializeSetTag_present(th) ==
    /\ Running(th, "serialize", "set_tag")
    /\ CBOR_TAG' = IF Top(th).self.tag = None THEN CBOR_TAG
                   ELSE set_tag(th, Top(th).self.tag)
    /\ stack' = SetTop(th, [Top(th) EXCEPT !.pc = "newtype"])
    /\ UNCHANGED <<tags_feature, phase, input, out, rd, ret, unwrap_of>>

\* serialize, line 38: set_tag(self.tag)
SerializeSetTag(th) ==
    /\ Running(th, "serialize", "set_tag")
    /\ CBOR_TAG' = set_tag(th, Top(th).self.tag)
    /\ stack' = SetTop(th, [Top(th) EXCEPT !.pc = "newtype"])
    /\ UNCHANGED <<tags_feature, phase, input, out, rd, ret, unwrap_of>>

\* a mutation of serialize_resume: the emission's error is returned with `?`,
\* before the clear
serialize_resume_try(f, r) ==
    [f EXCEPT !.r = r, !.pc = IF r.ok THEN "clear_tag" ELSE "return"]

\* serialize, lines 39-40: `let r = s.serialize_newtype_struct(..)` binds
\* whatever the emission returned and goes on to the clear
serialize_resume(f, r) == [f EXCEPT !.r = r, !.pc = "clear_tag"]

\* The codec is handed the sentinel newtype (the call of line 39): it reads
\* the slot and, when it holds a tag, writes the tag marker.  The write may
\* fail, and the emission then returns that error.
CodecEmitNewtype(th) ==
    /\ Running(th, "serialize", "newtype")
    /\ LET f == Top(th)
           t == get_tag(th)
       IN \/ /\ out' = [out EXCEPT ![th] =
                          IF t = None THEN @ ELSE Append(@, Marker(t[1]))]
             /\ stack' = SetTop(th, [f EXCEPT !.pc = "value", !.seen = t])
          \/ /\ stack' = SetTop(th,
                   serialize_resume([f EXCEPT !.seen = t],
                                    Err(custom("io error"))))
             /\ out' = out
    /\ UNCHANGED <<tags_feature, CBOR_TAG, phase, input, rd, ret, unwrap_of>>

\* The codec serializes the newtype's content, `value.serialize(self)`: a
\* nested Tagged value is one more call of serialize, any other payload is
\* written as it is (and that write may fail).
CodecEmitValue(th) ==
    /\ Running(th, "serialize", "value")
    /\ LET f == Top(th)
           v == f.self.value
       IN IF IsTagged(v)
          THEN /\ stack' = Push(th, [f EXCEPT !.pc = "await"], SerializeFrame(v))
               /\ out' = out
          ELSE \/ /\ out' = [out EXCEPT ![th] = Append(@, v)]
                  /\ stack' = SetTop(th, serialize_resume(f, Ok("unit")))
               \/ /\ out' = out
                  /\ stack' = SetTop(th,
                        serialize_resume(f, Err(custom("io error"))))
    /\ UNCHANGED <<tags_feature, CBOR_TAG, phase, input, rd, ret, unwrap_of>>

\* a mutation of SerializeClearTag: the clear is left out
SerializeClearTag_skip(th) ==
    /\ Running(th, "serialize", "clear_tag")
    /\ stack' = SetTop(th, [Top(th) EXCEPT !.pc = "return"])
    /\ UNCHANGED <<tags_feature, CBOR_TAG, phase, input, out, rd, ret, unwrap_of>>

\* serialize, line 40: set_tag(None)
SerializeClearTag(th) ==
    /\ Running(th, "serialize", "clear_tag")
    /\ CBOR_TAG' = set_tag(th, None)
    /\ stack' = SetTop(th, [Top(th) EXCEPT !.pc = "return"])
    /\ UNCHANGED <<tags_feature, phase, input, out, rd, ret, unwrap_of>>

\* serialize, line 41: `r` is returned, to the codec emitting the enclosing
\* Tagged value (which returns it from its own emission) or to the caller
SerializeReturn(th) ==
    /\ Running(th, "serialize", "return")
    /\ LET r == Top(th).r
           below == Pop(stack[th])
       IN IF below = <<>>
          THEN /\ stack' = [stack EXCEPT ![th] = <<>>]
               /\ phase' = [phase EXCEPT ![th] = "encoded"]
               /\ ret' = [ret EXCEPT ![th] = r]
          ELSE /\ stack' = [stack EXCEPT ![th] =
                     [below EXCEPT ![Len(below)] = serialize_resume(@, r)]]
               /\ UNCHANGED <<phase, ret>>
    /\ UNCHANGED <<tags_feature, CBOR_TAG, input, out, rd, unwrap_of>>

\* ----------------------------------------------------------------- read path

\* how the codec may hand over a content: a string or a byte string comes
\* transient, borrowed from the input, or owned, as the reader has it
Deliveries(ws) ==
    CASE ws = "str" -> {"str", "borrowed_str", "string"}
      [] ws = "bytes" -> {"bytes", "borrowed_bytes", "byte_buf"}
      [] OTHER -> {ws}

\* the shape a visit_* argument had when it was written
Canon(rs) ==
    CASE rs \in {"str", "borrowed_str", "string"} -> "str"
      [] rs \in {"bytes", "borrowed_bytes", "byte_buf"} -> "bytes"
      [] OTHER -> rs

\* The payload types T.  One type per written shape ("str" is String,
\* "bytes" a byte buffer type, "Option" serializes as none or some), the
\* zero-copy types &'de str and &'de [u8], and "Value", a self-describing
\* type that keeps whatever shape it is shown.
PlainType(ws) == IF ws \in {"none", "some"} THEN "Option" ELSE ws

\* the visit_* methods the visitor of T implements
Accepts(T, rs) ==
    CASE T = "Value" -> rs \notin {"enum", "newtype_struct"}
      [] T = "&str" -> rs = "borrowed_str"
      [] T = "&[u8]" -> rs = "borrowed_bytes"
      [] T = "bytes" -> Canon(rs) = "bytes" \/ rs = "seq"
      [] OTHER -> PlainType(Canon(rs)) = T

\* the shape of the T built from a visit_<rs>
Built(T, rs) ==
    CASE T = "&str" -> "str"
      [] T \in {"&[u8]", "bytes"} -> "bytes"
      [] OTHER -> Canon(rs)

\* serde's invalid-type error: what the visitor was shown and what its
\* expecting() says (lines 67-69 for ValueVisitor)
invalid_type(unexp, exp) ==
    [msg |-> "invalid type", unexpected |-> unexp, expected |-> exp]

\* T::deserialize(d) for a payload type T and a deserializer d that
\* presents the content val in the shape rs
payload_deserialize(T, rs, val) ==
    IF Accepts(T, rs)
    THEN Ok([shape |-> Built(T, rs), val |-> val])
    ELSE Err(invalid_type(rs, T))

\* a type to decode: `layers` times Tagged<..> around the payload type
Type(layers, payload) == [layers |-> layers, payload |-> payload]

\* T of Tagged<T>
Inner(ty) == [ty EXCEPT !.layers = @ - 1]

\* a mutation of Handled: visit_none and visit_enum are in
Handled_optional ==
    {"bool", "i8", "i16", "i32", "i64", "u8", "u16", "u32", "u64",
     "f32", "f64", "char", "str", "borrowed_str", "string",
     "byte_buf", "borrowed_bytes", "some", "unit", "seq", "map",
     "newtype_struct", "none", "enum"}

\* the visit_* methods ValueVisitor implements, lines 71-139 (visit_bytes,
\* visit_none and visit_enum are commented out)
Handled ==
    {"bool", "i8", "i16", "i32", "i64", "u8", "u16", "u32", "u64",
     "f32", "f64", "char", "str", "borrowed_str", "string",
     "byte_buf", "borrowed_bytes", "some", "unit", "seq", "map",
     "newtype_struct"}

\* a mutation of untagged: the pass-through takes the tag from the slot
untagged_slot(th, value) == Tagged_new(get_tag(th), value)

\* fn untagged<T>(value: T) -> Tagged<T>, called on thread th
untagged(th, value) == Tagged_new(None, value)

\* The shape the deserializer handed to T::deserialize presents, for each
\* visit_<rs> of the visitor.  v.into_deserializer() (line 53) presents a
\* primitive, a String and () as what they are, a &str as a transient str
\* (StrDeserializer, for &'de str as well) and a Vec<u8> as a sequence of
\* u8 (SeqDeserializer); visit_borrowed_bytes builds a
\* BorrowedBytesDeserializer (line 97), visit_seq and visit_map wrap the
\* access (lines 120, 127), visit_some passes its deserializer on (line 108).
into_deserializer(rs) ==
    CASE rs = "borrowed_str" -> "str"
      [] rs = "byte_buf" -> "seq"
      [] OTHER -> rs

\* a method of the Visitor trait that ValueVisitor does not implement: the
\* trait's default returns an invalid-type error
visit_default(rs) == Err(invalid_type(rs, "a cbor tag newtype"))

\* <ty>::deserialize(d) on thread th, for a deserializer d that presents
\* content, never a tag marker.  For a payload type this is the payload's
\* decode; for Tagged<T> it is deserialize_any (line 142) answered by the
\* visit_<rs> of lines 71-128: T::deserialize(..).map(untagged).
RECURSIVE deserialize_content(_, _, _, _)
deserialize_content(th, ty, rs, val) ==
    IF ty.layers = 0 THEN payload_deserialize(ty.payload, rs, val)
    ELSE IF rs \notin Handled THEN visit_default(rs)
    ELSE LET r == deserialize_content(th, Inner(ty), into_deserializer(rs), val)
         IN IF r.ok THEN Ok(untagged(th, r.value)) ELSE r

\* a call of <Tagged<T> as Deserialize>::deserialize(deserializer); ty is
\* Tagged<T>.  `chan` keeps what the slot held when the codec called
\* visit_newtype_struct, `nested` what T::deserialize returned.
DeserializeFrame(ty) ==
    [fn |-> "deserialize", ty |-> ty, pc |-> "deserialize_any",
     shape |-> "", val |-> "", marked |-> FALSE, chan |-> None,
     t |-> None, nested |-> Pending, r |-> Pending]

\* the payload types a thread decodes a content as: the type that wrote it,
\* the zero-copy and self-describing types, and types that reject it
DecodeTypes(leaf) ==
    {PlainType(leaf.shape), "Value", "bool", "unit"}
        \cup (IF leaf.shape = "str" THEN {"&str"} ELSE {})
        \cup (IF leaf.shape = "bytes" THEN {"&[u8]"} ELSE {})

\* a thread decodes the stream it has encoded, as Tagged<..T..> with the
\* layers of the value it encoded and a payload type T
StartDecode(th) ==
    /\ phase[th] = "encoded"
    /\ ret[th].ok
    /\ \E T \in DecodeTypes(LeafOf(input[th])) :
          stack' = [stack EXCEPT ![th] =
                      <<DeserializeFrame(Type(Layers(input[th]), T))>>]
    /\ phase' = [phase EXCEPT ![th] = "decoding"]
    /\ rd' = [rd EXCEPT ![th] = out[th]]
    /\ UNCHANGED <<tags_feature, CBOR_TAG, input, out, ret, unwrap_of>>

\* the stream a codec with tag support writes for v: a tag marker for every
\* tag that is present, then the payload
RECURSIVE Encoded(_)
Encoded(v) ==
    IF IsTagged(v)
    THEN (IF v.tag = None THEN <<>> ELSE <<Marker(v.tag[1])>>) \o Encoded(v.value)
    ELSE <<v>>

\* a thread decodes a stream that came from elsewhere (written by a codec
\* with tag support from one of `values`), as Tagged<..T..> with the layers
\* of that value and a payload type T
StartDecodeStream(th, values) ==
    /\ phase[th] = "idle"
    /\ \E v \in values :
          /\ IsTagged(v)
          /\ rd' = [rd EXCEPT ![th] = Encoded(v)]
          /\ \E T \in DecodeTypes(LeafOf(v)) :
                stack' = [stack EXCEPT ![th] =
                            <<DeserializeFrame(Type(Layers(v), T))>>]
    /\ phase' = [phase EXCEPT ![th] = "decoding"]
    /\ UNCHANGED <<tags_feature, CBOR_TAG, input, out, ret, unwrap_of>>

\* what get_tag returns on thread th once the slots are `slots`
Holds(slots, th) == IF tags_feature THEN slots[th] ELSE None

\* The codec, asked deserialize_any (line 142), finds a tag marker: it
\* stores the tag in the slot and calls visit_newtype_struct.
CodecReadTag(th) ==
    /\ Running(th, "deserialize", "deserialize_any")
    /\ rd[th] # <<>>
    /\ IsMarker(Head(rd[th]))
    /\ CBOR_TAG' = set_tag(th, Some(Head(rd[th]).mark))
    /\ rd' = [rd EXCEPT ![th] = Tail(@)]
    /\ stack' = SetTop(th, [Top(th) EXCEPT !.pc = "visit",
                               !.shape = "newtype_struct",
                               !.marked = TRUE,
                               !.chan = Holds(CBOR_TAG', th)])
    /\ UNCHANGED <<tags_feature, phase, input, out, ret, unwrap_of>>

\* The codec, asked deserialize_any, finds no tag marker: it leaves the
\* slot alone and calls the visit_* of the content's shape.
CodecReadShape(th) ==
    /\ Running(th, "deserialize", "deserialize_any")
    /\ rd[th] # <<>>
    /\ ~IsMarker(Head(rd[th]))
    /\ \E rs \in Deliveries(Head(rd[th]).shape) :
          stack' = SetTop(th, [Top(th) EXCEPT !.pc = "visit",
                                  !.shape = rs,
                                  !.val = Head(rd[th]).val])
    /\ rd' = [rd EXCEPT ![th] = Tail(@)]
    /\ UNCHANGED <<tags_feature, CBOR_TAG, phase, input, out, ret, unwrap_of>>

\* where deserialize_any goes on once the visitor has returned: a codec that
\* has stored a tag clears the slot before it returns
AfterVisit(f) == IF f.marked THEN "codec_clear" ELSE "return"

\* lines 71-128: a visit_* other than visit_newtype_struct, or a method the
\* visitor leaves to the trait's default
VisitShape(th) ==
    /\ Running(th, "deserialize", "visit")
    /\ Top(th).shape # "newtype_struct"
    /\ LET f == Top(th)
       IN stack' = SetTop(th,
             [f EXCEPT !.r = deserialize_content(th, f.ty, f.shape, f.val),
                       !.pc = AfterVisit(f)])
    /\ UNCHANGED <<tags_feature, CBOR_TAG, phase, input, out, rd, ret, unwrap_of>>

\* a mutation of VisitNewtypeGetTag: the tag is taken out of the slot
VisitNewtypeGetTag_take(th) ==
    /\ Running(th, "deserialize", "visit")
    /\ Top(th).shape = "newtype_struct"
    /\ stack' = SetTop(th, [Top(th) EXCEPT !.t = get_tag(th), !.pc = "nested"])
    /\ CBOR_TAG' = set_tag(th, None)
    /\ UNCHANGED <<tags_feature, phase, input, out, rd, ret, unwrap_of>>

\* visit_newtype_struct, line 137: let t = get_tag()
VisitNewtypeGetTag(th) ==
    /\ Running(th, "deserialize", "visit")
    /\ Top(th).shape = "newtype_struct"
    /\ stack' = SetTop(th, [Top(th) EXCEPT !.t = get_tag(th), !.pc = "nested"])
    /\ UNCHANGED <<tags_feature, CBOR_TAG, phase, input, out, rd, ret, unwrap_of>>

\* visit_newtype_struct, line 138: T::deserialize(deserializer), on the
\* codec's deserializer.  A Tagged<U> is one more call of deserialize; a
\* payload type reads the content that follows.
VisitNewtypeNested(th) ==
    /\ Running(th, "deserialize", "nested")
    /\ LET f == Top(th)
       IN IF f.ty.layers > 1
          THEN /\ stack' = Push(th, [f EXCEPT !.pc = "await"],
                                DeserializeFrame(Inner(f.ty)))
               /\ rd' = rd
          ELSE /\ rd[th] # <<>>
               /\ ~IsMarker(Head(rd[th]))
               /\ \E rs \in Deliveries(Head(rd[th]).shape) :
                     stack' = SetTop(th,
                        [f EXCEPT !.nested = payload_deserialize(
                                     f.ty.payload, rs, Head(rd[th]).val),
                                  !.val = Head(rd[th]).val,
                                  !.pc = "build"])
               /\ rd' = [rd EXCEPT ![th] = Tail(@)]
    /\ UNCHANGED <<tags_feature, CBOR_TAG, phase, input, out, ret, unwrap_of>>

\* a mutation of newtype_tag: the slot is read when the value is built
newtype_tag_late(th, f) == get_tag(th)

\* visit_newtype_struct, lines 137-138: the tag of the Tagged value is the
\* local `t` read before the nested decode
newtype_tag(th, f) == f.t

\* a mutation of VisitNewtypeBuild: a failure of the nested decode is
\* reported as an error of the visitor's own
VisitNewtypeBuild_wrap(th) ==
    /\ Running(th, "deserialize", "build")
    /\ LET f == Top(th)
       IN stack' = SetTop(th,
             [f EXCEPT !.r = IF f.nested.ok
                             THEN Ok(Tagged_new(f.t, f.nested.value))
                             ELSE Err(custom("invalid tagged value")),
                       !.pc = AfterVisit(f)])
    /\ UNCHANGED <<tags_feature, CBOR_TAG, phase, input, out, rd, ret, unwrap_of>>

\* visit_newtype_struct, line 138: .map(|v| Tagged::new(t, v))
VisitNewtypeBuild(th) ==
    /\ Running(th, "deserialize", "build")
    /\ LET f == Top(th)
       IN stack' = SetTop(th,
             [f EXCEPT !.r = IF f.nested.ok
                             THEN Ok(Tagged_new(newtype_tag(th, f),
                                                f.nested.value))
                             ELSE f.nested,
                       !.pc = AfterVisit(f)])
    /\ UNCHANGED <<tags_feature, CBOR_TAG, phase, input, out, rd, ret, unwrap_of>>

\* The codec clears the slot it has written, whatever the visitor returned.
CodecClearTag(th) ==
    /\ Running(th, "deserialize", "codec_clear")
    /\ CBOR_TAG' = set_tag(th, None)
    /\ stack' = SetTop(th, [Top(th) EXCEPT !.pc = "return"])
    /\ UNCHANGED <<tags_feature, phase, input, out, rd, ret, unwrap_of>>

\* deserialize returns what deserialize_any returned (line 142), to the
\* visit_newtype_struct of the enclosing Tagged type or to the caller
DeserializeReturn(th) ==
    /\ Running(th, "deserialize", "return")
    /\ LET r == Top(th).r
           below == Pop(stack[th])
       IN IF below = <<>>
          THEN /\ stack' = [stack EXCEPT ![th] = <<>>]
               /\ phase' = [phase EXCEPT ![th] = "decoded"]
               /\ ret' = [ret EXCEPT ![th] = r]
          ELSE /\ stack' = [stack EXCEPT ![th] =
                     [below EXCEPT ![Len(below)] =
                        [@ EXCEPT !.nested = r, !.pc = "build"]]]
               /\ UNCHANGED <<phase, ret>>
    /\ UNCHANGED <<tags_feature, CBOR_TAG, input, out, rd, unwrap_of>>

\* ------------------------------------------------------------ unwrap_if_tag

\* a mutation of unwrap_if_tag: any tag is taken for the expected one
unwrap_if_tag_any(self, expected_tag) ==
    IF self.tag # None THEN Ok(self.value)
    ELSE Err(custom("missing cbor tag"))

\* a mutation of unwrap_if_tag: the two messages are exchanged
unwrap_if_tag_swapped(self, expected_tag) ==
    IF self.tag = Some(expected_tag) THEN Ok(self.value)
    ELSE IF self.tag # None THEN Err(custom("missing cbor tag"))
    ELSE Err(custom("unexpected cbor tag"))

\* Tagged::unwrap_if_tag, lines 24-33
unwrap_if_tag(self, expected_tag) ==
    IF self.tag # None /\ self.tag[1] = expected_tag THEN Ok(self.value)
    ELSE IF self.tag # None THEN Err(custom("unexpected cbor tag"))
    ELSE Err(custom("missing cbor tag"))

\* a thread applies unwrap_if_tag to the Tagged value it has decoded
Unwrap(th, expected_tag) ==
    /\ phase[th] = "decoded"
    /\ ret[th].ok
    /\ phase' = [phase EXCEPT ![th] = "unwrapped"]
    /\ unwrap_of' = [unwrap_of EXCEPT ![th] =
                       [self |-> ret[th].value, expected_tag |-> expected_tag]]
    /\ ret' = [ret EXCEPT ![th] = unwrap_if_tag(ret[th].value, expected_tag)]
    /\ UNCHANGED <<tags_feature, CBOR_TAG, stack, input, out, rd>>

\* a thread is done with what its last top-level calls returned
Reset(th) ==
    /\ phase[th] \in {"encoded", "decoded", "unwrapped"}
    /\ phase' = [phase EXCEPT ![th] = "idle"]
    /\ input' = [input EXCEPT ![th] = Pending]
    /\ out' = [out EXCEPT ![th] = <<>>]
    /\ rd' = [rd EXCEPT ![th] = <<>>]
    /\ ret' = [ret EXCEPT ![th] = Pending]
    /\ unwrap_of' = [unwrap_of EXCEPT ![th] = Pending]
    /\ UNCHANGED <<tags_feature, CBOR_TAG, stack>>

\* ------------------------------------------------------------ specifications

\* thread_local!(static CBOR_TAG: RefCell<Option<u64>> = RefCell::new(None))
InitThreads ==
    /\ CBOR_TAG = [th \in Threads |-> None]
    /\ stack = [th \in Threads |-> <<>>]
    /\ phase = [th \in Threads |-> "idle"]
    /\ input = [th \in Threads |-> Pending]
    /\ out = [th \in Threads |-> <<>>]
    /\ rd = [th \in Threads |-> <<>>]
    /\ ret = [th \in Threads |-> Pending]
    /\ unwrap_of = [th \in Threads |-> Pending]

\* the Tagged values a thread encodes
EncodeInputs == UNION {TaggedValues(n, Leaves) : n \in 1..MaxNest}

\* what two threads running side by side encode: one layer, one payload
SmallInputs == TaggedValues(1, {[shape |-> "u64", val |-> "a"]})

\* one step of thread th
Step(th, values) ==
    \/ StartEncode(th, values)
    \/ SerializeSetTag(th)
    \/ CodecEmitNewtype(th)
    \/ CodecEmitValue(th)
    \/ SerializeClearTag(th)
    \/ SerializeReturn(th)
    \/ StartDecode(th)
    \/ StartDecodeStream(th, values)
    \/ CodecReadTag(th)
    \/ CodecReadShape(th)
    \/ VisitShape(th)
    \/ VisitNewtypeGetTag(th)
    \/ VisitNewtypeNested(th)
    \/ VisitNewtypeBuild(th)
    \/ CodecClearTag(th)
    \/ DeserializeReturn(th)
    \/ \E e \in Tags : Unwrap(th, e)
    \/ Reset(th)

\* one thread, tag support compiled in
Init == InitThreads /\ tags_feature = TRUE

Next == Step(1, EncodeInputs)

Spec == Init /\ [][Next]_vars

\* two threads, tag support compiled in
NextThreads == \E th \in Threads : Step(th, SmallInputs)

SpecThreads == Init /\ [][NextThreads]_vars

\* one thread, tag support compiled out
InitNoTags == InitThreads /\ tags_feature = FALSE

SpecNoTags == InitNoTags /\ [][Next]_vars

\* the steps of a decode call: direct calls and returns on one call stack,
\* none of which waits for anything
DecodeStep(th) ==
    \/ CodecReadTag(th)
    \/ CodecReadShape(th)
    \/ VisitShape(th)
    \/ VisitNewtypeGetTag(th)
    \/ VisitNewtypeNested(th)
    \/ VisitNewtypeBuild(th)
    \/ CodecClearTag(th)
    \/ DeserializeReturn(th)

\* payloads of four kinds: a primitive, a string and a byte string (each
\* delivered in three ways) and an absent option
FairInputs ==
    UNION {TaggedValues(n, {[shape |-> sh, val |-> "a"] :
                              sh \in {"u64", "str", "bytes", "none"}}) :
             n \in 1..MaxNest}

NextFair == Step(1, FairInputs)

\* one thread, tag support compiled in, a decode that has begun runs on
SpecFair == Init /\ [][NextFair]_vars /\ WF_vars(DecodeStep(1))

\* ------------------------------------------------------------------- claims

\* the outermost call of a thread is a deserialize about to return
DecodeReturning(th) ==
    /\ Len(stack[th]) = 1
    /\ Running(th, "deserialize", "return")

\* T decodes what the payload `leaf` was written as back to `leaf`, however
\* the reader hands the content over
Reversible(T, leaf) ==
    \A rs \in Deliveries(leaf.shape) :
        payload_deserialize(T, rs, leaf.val) = Ok(leaf)

\* C1: round trip.  A Tagged value of one layer whose payload type decodes
\* the payload reversibly, encoded and then decoded from the stream that the
\* encode wrote, comes back with the same tag and the same payload.
C1_RoundTrip ==
    \A th \in Threads :
        (/\ DecodeReturning(th)
         /\ input[th] # Pending
         /\ Layers(input[th]) = 1
         /\ Reversible(Top(th).ty.payload, LeafOf(input[th])))
        => Top(th).r = Ok(input[th])

\* C2: unwrap_if_tag returns Ok(payload) exactly when the tag is
\* Some(expected); in every other case it returns an error, which holds no
\* payload.
C2_UnwrapIffExpected ==
    \A th \in Threads :
        phase[th] = "unwrapped" =>
            LET a == unwrap_of[th]
            IN /\ ret[th].ok <=> a.self.tag = Some(a.expected_tag)
               /\ ret[th].ok => ret[th].value = a.self.value
               /\ ~ret[th].ok => "value" \notin DOMAIN ret[th]

\* unwrap_if_tag was called with the tag it expects and returned the payload
C2_Witness ==
    /\ phase[1] = "unwrapped"
    /\ unwrap_of[1].self.tag = Some(unwrap_of[1].expected_tag)
    /\ ret[1] = Ok(unwrap_of[1].self.value)

\* the errors the design names: MissingTag, and UnexpectedTag(actual), which
\* holds the tag that was found
MissingTag == custom("missing cbor tag")

UnexpectedTag(actual) == [msg |-> "unexpected cbor tag", actual |-> actual]

C4_WriteClears ==
    \A th \in Threads :
        /\ Running(th, "serialize", "return") => CBOR_TAG[th] = None
        /\ phase[th] = "encoded" => CBOR_TAG[th] = None

\* a nested serialize, entered while the slot held the outer tag, returns the
\* error of its emission after it had stored a tag of its own
C4_Witness ==
    /\ Len(stack[1]) = 2
    /\ Running(1, "serialize", "return")
    /\ ~Top(1).r.ok
    /\ Top(1).self.tag # None
    /\ stack[1][1].self.tag # None
    /\ stack[1][1].self.tag # Top(1).self.tag

C6_PassThrough ==
    \A th \in Threads :
        (/\ Running(th, "deserialize", "return")
         /\ Top(th).ty.layers = 1
         /\ Top(th).shape \in Handled \ {"newtype_struct"})
        => LET f == Top(th)
               direct == payload_deserialize(f.ty.payload, f.shape, f.val)
           IN IF direct.ok
              THEN f.r = Ok(Tagged_new(None, direct.value))
              ELSE f.r = direct

\* C7: the tag of the value visit_newtype_struct returns is what the slot
\* held when the codec called it, whatever the nested decode did to the slot.
C7_TagReadFirst ==
    \A th \in Threads :
        (/\ stack[th] # <<>>
         /\ Top(th).fn = "deserialize"
         /\ Top(th).pc \in {"codec_clear", "return"}
         /\ Top(th).shape = "newtype_struct"
         /\ Top(th).r.ok)
        => Top(th).r.value.tag = Top(th).chan

\* visit_newtype_struct returns a tag that the slot no longer holds: the
\* nested decode of a Tagged value has overwritten and cleared it
C7_Witness ==
    /\ Running(1, "deserialize", "codec_clear")
    /\ Top(1).ty.layers = 2
    /\ Top(1).r.ok
    /\ Top(1).r.value.tag # None
    /\ Top(1).r.value.value.tag # None
    /\ CBOR_TAG[1] = None

\* C8: a Tagged value inside a Tagged value, encoded and decoded from the
\* stream that the encode wrote, comes back with the outer tag at the outer
\* layer and the inner tag at the inner layer.
C8_NestedTags ==
    \A th \in Threads :
        (/\ phase[th] = "decoded"
         /\ input[th] # Pending
         /\ Layers(input[th]) = 2
         /\ ret[th].ok)
        => TagsOf(ret[th].value) = TagsOf(input[th])

\* C9: a step of one thread changes neither the slot of another thread nor
\* what get_tag returns there, and the codec, handed the sentinel newtype,
\* finds in the slot the tag of the Tagged value its own thread is emitting.
C9_ThreadIsolation ==
    /\ [][\A th \in Threads :
            (stack'[th] = stack[th] /\ phase'[th] = phase[th]) =>
                /\ CBOR_TAG'[th] = CBOR_TAG[th]
                /\ get_tag(th)' = get_tag(th)]_vars
    /\ [](\A th \in Threads :
            (/\ stack[th] # <<>>
             /\ Top(th).fn = "serialize"
             /\ Top(th).pc \notin {"set_tag", "newtype"})
            => Top(th).seen = Top(th).self.tag)

\* both threads are in the middle of an emission, each with its own tag in
\* its own slot
C9_Witness ==
    /\ Running(1, "serialize", "value")
    /\ Running(2, "serialize", "value")
    /\ CBOR_TAG[1] # None
    /\ CBOR_TAG[2] # None
    /\ CBOR_TAG[1] # CBOR_TAG[2]
    /\ Top(1).seen = CBOR_TAG[1]
    /\ Top(2).seen = CBOR_TAG[2]

\* C10: without tag support set_tag changes nothing and get_tag returns
\* None, so every Tagged value decoded has tag None at every layer, the ones
\* decoded by visit_newtype_struct as well.
C10_NoTagSupport ==
    ~tags_feature =>
        \A th \in Threads :
            /\ CBOR_TAG[th] = None
            /\ get_tag(th) = None
            /\ (stack[th] # <<>> /\ Top(th).fn = "deserialize"
                  /\ Top(th).pc \in {"codec_clear", "return"} /\ Top(th).r.ok)
               => \A i \in 1..Len(TagsOf(Top(th).r.value)) :
                      TagsOf(Top(th).r.value)[i] = None
            /\ (phase[th] = "decoded" /\ ret[th].ok)
               => \A i \in 1..Len(TagsOf(ret[th].value)) :
                      TagsOf(ret[th].value)[i] = None

\* without tag support, visit_newtype_struct has decoded a stream that
\* holds a tag marker, after the codec had called set_tag with that tag
C10_Witness ==
    /\ ~tags_feature
    /\ Running(1, "deserialize", "codec_clear")
    /\ Top(1).shape = "newtype_struct"
    /\ Top(1).r.ok
    /\ Top(1).r.value.tag = None

\* thread th takes the step
Steps(th) == stack'[th] # stack[th] \/ phase'[th] # phase[th]

\* the argument of the set_tag call that thread th is about to make, as a
\* one-element set; empty when its next step is no set_tag call
SetArgument(th) ==
    IF Running(th, "serialize", "set_tag") THEN {Top(th).self.tag}
    ELSE IF Running(th, "serialize", "clear_tag") THEN {None}
    ELSE IF Running(th, "deserialize", "codec_clear") THEN {None}
    ELSE IF /\ Running(th, "deserialize", "deserialize_any")
            /\ rd[th] # <<>>
            /\ IsMarker(Head(rd[th]))
         THEN {Some(Head(rd[th]).mark)}
    ELSE {}

\* C11: the slot starts empty and holds None or one tag; a set_tag call
\* leaves its argument in the slot whatever the slot held; every other step,
\* the get_tag calls among them, leaves the slot as it is, and a get_tag call
\* returns what the slot holds, so that a get_tag right after it returns the
\* same.
C11_SlotContract ==
    /\ \A th \in Threads : CBOR_TAG[th] = None
    /\ [](\A th \in Threads : CBOR_TAG[th] \in OptTags)
    /\ [][\A th \in Threads :
            Steps(th) =>
              /\ \A x \in SetArgument(th) : CBOR_TAG'[th] = x
              /\ SetArgument(th) = {} => CBOR_TAG'[th] = CBOR_TAG[th]
              /\ Running(th, "serialize", "newtype") =>
                    /\ Top(th)'.seen = CBOR_TAG[th]
                    /\ get_tag(th)' = Top(th)'.seen
              /\ (Running(th, "deserialize", "visit")
                    /\ Top(th).shape = "newtype_struct") =>
                    /\ Top(th)'.t = CBOR_TAG[th]
                    /\ get_tag(th)' = Top(th)'.t]_vars

\* set_tag has put the inner tag into a slot that held the outer tag
C11_Witness ==
    /\ Len(stack[1]) = 2
    /\ Running(1, "serialize", "newtype")
    /\ Top(1).self.tag # None
    /\ stack[1][1].self.tag # None
    /\ stack[1][1].self.tag # Top(1).self.tag
    /\ CBOR_TAG[1] = Top(1).self.tag

\* the calls of serialize that are on thread th's stack
SerializeCalls(th) ==
    {stack[th][i] : i \in {j \in 1..Len(stack[th]) : stack[th][j].fn = "serialize"}}

\* C12: when the codec is handed the sentinel newtype of a Tagged value, at
\* any nesting depth, the slot holds that value's tag field (None for an
\* untagged one), whatever the slot held when serialize was called; so the
\* tag the codec reads at the emission is the tag field.
C12_EmissionSeesTag ==
    \A th \in Threads :
        /\ Running(th, "serialize", "newtype") => get_tag(th) = Top(th).self.tag
        /\ \A f \in SerializeCalls(th) :
              f.pc \in {"value", "await", "clear_tag", "return"} =>
                  f.seen = f.self.tag

\* the codec has been handed the emission of an untagged inner value whose
\* serialize was called with the outer tag still in the slot
C12_Witness ==
    /\ Len(stack[1]) = 2
    /\ Running(1, "serialize", "value")
    /\ Top(1).self.tag = None
    /\ Top(1).seen = None
    /\ stack[1][1].self.tag # None
    /\ stack[1][1].seen = stack[1][1].self.tag

\* C13: in the emission of an outer Tagged value whose payload is a Tagged
\* value, from the return of the inner emission up to the outer clear of
\* line 40 the slot holds the outer tag.
C13_RestoredAfterNested ==
    \A th \in Threads :
        (Running(th, "serialize", "clear_tag") /\ IsTagged(Top(th).self.value))
            => get_tag(th) = Top(th).self.tag

\* the calls of deserialize on thread th's stack whose visitor has returned
VisitedCalls(th) ==
    {stack[th][i] : i \in {j \in 1..Len(stack[th]) :
                             /\ stack[th][j].fn = "deserialize"
                             /\ stack[th][j].pc \in {"codec_clear", "return"}}}

\* what the nested decode T::deserialize(..) of the visitor step of call f
\* returned: line 138 for the newtype shape, line 53 (and 97, 108, 113, 120,
\* 127) for the other shapes
NestedResult(th, f) ==
    IF f.shape = "newtype_struct" THEN f.nested
    ELSE deserialize_content(th, Inner(f.ty), into_deserializer(f.shape), f.val)

\* C14: for every shape the visitor handles, the decode of the Tagged value
\* fails exactly when the nested decode of the payload type fails, and then
\* with that very error; no Tagged value is produced and no error of the
\* visitor's own appears.
C14_NestedErrorUnchanged ==
    \A th \in Threads : \A f \in VisitedCalls(th) :
        f.shape \in Handled =>
            /\ f.r.ok = NestedResult(th, f).ok
            /\ ~NestedResult(th, f).ok => f.r = NestedResult(th, f)

\* a decode on the newtype shape whose nested payload decode (a map shown
\* to bool) has failed has returned the payload type's error
C14_Witness ==
    /\ Running(1, "deserialize", "codec_clear")
    /\ ~Top(1).nested.ok
    /\ Top(1).r = Err(invalid_type("map", "bool"))

\* C15: a decode of a Tagged value to which the codec reports an absent
\* option or an enum returns an error, the invalid-type error of the visitor,
\* and so no Tagged value, untagged or tagged.
C15_UnsupportedShapesFail ==
    \A th \in Threads : \A f \in VisitedCalls(th) :
        f.shape \in {"none", "enum"} =>
            /\ ~f.r.ok
            /\ f.r.error = invalid_type(f.shape, "a cbor tag newtype")

\* a Tagged<Option<..>> has been shown an absent option, which Option itself
\* accepts, and has returned the error
C15_Witness ==
    /\ Running(1, "deserialize", "return")
    /\ Top(1).shape = "none"
    /\ Top(1).ty.payload = "Option"
    /\ payload_deserialize("Option", "none", Top(1).val).ok
    /\ ~Top(1).r.ok

\* the positions of a decode call, in the order the code goes through them
PcRank(pc) ==
    CASE pc = "deserialize_any" -> 0
      [] pc = "visit" -> 1
      [] pc = "nested" -> 2
      [] pc = "await" -> 3
      [] pc = "build" -> 4
      [] pc = "codec_clear" -> 5
      [] pc = "return" -> 6

\* the calls of deserialize on thread th's stack
DeserializeCalls(th) ==
    {stack[th][i] : i \in {j \in 1..Len(stack[th]) : stack[th][j].fn = "deserialize"}}

\* the stack positions of thread th that hold a call of deserialize both
\* before and after the step
SameCalls(th) ==
    {i \in 1..Len(stack[th]) :
        /\ i <= Len(stack'[th])
        /\ stack[th][i].fn = "deserialize"
        /\ stack'[th][i].fn = "deserialize"}

\* C16: a decode call of a Tagged value starts before any shape is seen,
\* sees one shape and keeps it, and never goes back to an earlier position;
\* it takes the tagged read (get_tag, nested decode, build) only on the
\* newtype shape and the pass-through only on another shape, never both: a
\* pass-through reads no tag and returns tag None, a tagged read returns the
\* tag the slot held when the visitor was called; and every decode that has
\* begun returns.
C16_StateMachine ==
    /\ [][\A th \in Threads :
            /\ (Len(stack'[th]) > Len(stack[th])
                  /\ stack'[th][Len(stack'[th])].fn = "deserialize") =>
                    /\ stack'[th][Len(stack'[th])].pc = "deserialize_any"
                    /\ stack'[th][Len(stack'[th])].shape = ""
            /\ \A i \in SameCalls(th) :
                  /\ PcRank(stack'[th][i].pc) >= PcRank(stack[th][i].pc)
                  /\ stack[th][i].pc # "deserialize_any" =>
                        stack'[th][i].shape = stack[th][i].shape]_vars
    /\ [](\A th \in Threads : \A f \in DeserializeCalls(th) :
            /\ f.pc = "deserialize_any" <=> f.shape = ""
            /\ f.pc \in {"nested", "await", "build"} => f.shape = "newtype_struct"
            /\ (f.pc \in {"codec_clear", "return"} /\ f.shape # "newtype_struct") =>
                  /\ f.t = None /\ f.nested = Pending
                  /\ f.r.ok => f.r.value.tag = None
            /\ (f.pc \in {"codec_clear", "return"} /\ f.shape = "newtype_struct") =>
                  /\ f.nested # Pending
                  /\ f.r.ok => f.r.value.tag = f.chan)
    /\ \A th \in Threads : (phase[th] = "decoding") ~> (phase[th] = "decoded")

\* an inner decode call has taken the pass-through while the slot held the
\* outer call's tag, and the outer call waits in its tagged read
C16_Witness ==
    /\ Len(stack[1]) = 2
    /\ stack[1][1].fn = "deserialize"
    /\ stack[1][1].pc = "await"
    /\ stack[1][1].t # None
    /\ Running(1, "deserialize", "return")
    /\ Top(1).shape = "u64"
    /\ Top(1).r.ok
    /\ Top(1).r.value.tag = None
    /\ get_tag(1) # None

\* thread th is inside the visitor of a deserialize call or at that call's
\* return: the part of a decode that is the adapter's own
InVisitor(th) ==
    /\ stack[th] # <<>>
    /\ Top(th).fn = "deserialize"
    /\ Top(th).pc \in {"visit", "nested", "build", "return"}

\* C17: no step of the visitor or of deserialize's return writes the slot,
\* on any shape, whether the nested decode succeeds or fails; the one time
\* the visitor reads the slot is the get_tag at the start of
\* visit_newtype_struct, and the local t it fills is not touched by any other
\* step.  A change of the slot during a decode is a step of the codec.
C17_ReadPathNeverWrites ==
    [][\A th \in Threads :
          (InVisitor(th) /\ Steps(th)) =>
              /\ CBOR_TAG' = CBOR_TAG
              /\ \A i \in SameCalls(th) :
                    stack'[th][i].t # stack[th][i].t =>
                        /\ i = Len(stack[th])
                        /\ stack[th][i].pc = "visit"
                        /\ stack[th][i].shape = "newtype_struct"
                        /\ stack'[th][i].t = get_tag(th)]_vars

\* visit_newtype_struct has returned the nested decode's error and the slot
\* still holds the tag the codec stored
C17_Witness ==
    /\ Running(1, "deserialize", "codec_clear")
    /\ Top(1).shape = "newtype_struct"
    /\ ~Top(1).r.ok
    /\ Top(1).chan # None
    /\ get_tag(1) = Top(1).chan

\* C18: a byte string that the codec hands over as a transient slice is
\* answered with the invalid-type error of the visitor; handed over as a
\* borrowed slice or as an owned buffer, the same bytes decode to the Tagged
\* value with tag None around the payload that T makes of them.
C18_ByteDeliveries ==
    \A th \in Threads : \A f \in VisitedCalls(th) :
        f.ty.layers = 1 =>
            /\ f.shape = "bytes" =>
                  f.r = Err(invalid_type("bytes", "a cbor tag newtype"))
            /\ (f.shape \in {"borrowed_bytes", "byte_buf"}
                  /\ payload_deserialize(f.ty.payload, f.shape, f.val).ok) =>
                  f.r = Ok(Tagged_new(None,
                     payload_deserialize(f.ty.payload, f.shape, f.val).value))
====
